---- MODULE Spec2Model ----
(***************************************************************************)
(* Model of route-optmizer.py: RouteOptimizer.optimize_route and the       *)
(* helpers it calls (haversine_distance, travel_time,                      *)
(* find_nearest_valid_location).                                           *)
(*                                                                         *)
(* Units.  The source computes with floats; the model computes with exact  *)
(* integers in fixed point:                                                *)
(*   - an angle (after math.radians) is a whole number of milliradians;    *)
(*   - a distance is a whole number of metres (EARTH_RADIUS km * mrad);    *)
(*   - a time (travel time, prep_time, state.time) is a whole number of    *)
(*     thousandths of a minute.                                            *)
(* Every Location of the model lies on the meridian lon = 0.  There        *)
(* dlon = 0, so a = sin^2(dlat/2) and c = 2*asin(sqrt(a)) = |dlat|: the    *)
(* haversine formula is computed exactly, without trigonometry.            *)
(***************************************************************************)
EXTENDS Integers, Sequences, FiniteSets, TLC

(* ---------------------------- bounds ----------------------------------- *)

\* longest order list handed to optimize_route
MaxOrders == 2
\* latitudes of the locations: 0 .. MaxLat milliradians
MaxLat == 1
\* stops explored beyond the 2 * N that an order list of N orders needs
ExtraStops == 2

(* ---------------------------- constants -------------------------------- *)

EARTH_RADIUS == 6371
AVG_SPEED == 20
\* float('inf'): larger than every time the model reaches
inf == 2000000000
\* prep_time=20 (minutes) of the example restaurant r1
PREP_TIME == 20000

(* ---------------------------- data model ------------------------------- *)

Lats == 0 .. MaxLat
\* a restaurant that is ready at once, and one that is ready after 20 minutes
PrepTimes == {0, PREP_TIME}

Location(name, lat, lon) == [name |-> name, lat |-> lat, lon |-> lon]

Restaurant(location, prep_time) == [location |-> location, prep_time |-> prep_time]

\* The restaurants of the model all carry the name "R": two restaurants at
\* the same latitude are equal Locations.
Restaurants == { Restaurant(Location("R", lat, 0), p) : lat \in Lats, p \in PrepTimes }

\* The customer of an order placed at restaurant r: a Location named "C" at
\* any latitude (equal to no restaurant's Location, also where it shares
\* the coordinates), or a Location equal to r's own.
Customers(r) == { Location("C", lat, 0) : lat \in Lats } \cup { r.location }

\* None, as a value that equals no Location
None == [name |-> "None", lat |-> -1, lon |-> -1]

\* the order identifiers "1", "2", ...
IdOf(k) == ToString(k)

\* The identifier lists of length n, duplicates included.  The code only
\* compares identifiers for equality, so the lists are enumerated up to
\* renaming: the i-th identifier is one already used or the next unused one.
IdLists(n) ==
    { ids \in [1 .. n -> {IdOf(k) : k \in 1 .. n}] :
        \A i \in 1 .. n : \E k \in 1 .. i :
            /\ ids[i] = IdOf(k)
            /\ k = 1 \/ \E j \in 1 .. (i - 1) : ids[j] = IdOf(k - 1) }

Order(id, restaurant, customer) ==
    [id |-> id, restaurant |-> restaurant, customer |-> customer]

\* restaurant and customer of one order
Meals == UNION { { [restaurant |-> r, customer |-> c] : c \in Customers(r) } : r \in Restaurants }

\* restaurant_arrival_times is never read nor written after construction
DeliveryState(current_location, current_time) ==
    [location |-> current_location,
     time |-> current_time,
     picked_up_orders |-> {},
     delivered_orders |-> {}]

(* ---------------------------- distance --------------------------------- *)

Abs(x) == IF x < 0 THEN -x ELSE x

\* math.radians: the model's coordinates are degrees in the unit that
\* math.radians maps to one milliradian
radians(x) == x

\* haversine_distance with the signed difference of the latitudes for c
haversine_distance_Signed(loc1, loc2) ==
    LET lat1 == radians(loc1.lat)
        lat2 == radians(loc2.lat)
        dlat == lat2 - lat1
    IN  EARTH_RADIUS * dlat

\* metres; on the meridian c = |dlat| (see the header)
haversine_distance(loc1, loc2) ==
    LET lat1 == radians(loc1.lat)
        lat2 == radians(loc2.lat)
        dlat == lat2 - lat1
        c == Abs(dlat)
    IN  EARTH_RADIUS * c

\* thousandths of a minute; (distance / AVG_SPEED) * 60 with the
\* multiplication first, which keeps the division exact
travel_time(loc1, loc2) ==
    (haversine_distance(loc1, loc2) * 60) \div AVG_SPEED

(* ---------------------------- candidate search ------------------------- *)

Best(loc, id, t) == [location |-> loc, order_id |-> id, arrival_time |-> t]

\* CheckPickup with the arrival time taken as the travel time alone
CheckPickup_NoClock(state, order, waiting_required, best) ==
    LET arrival_time == travel_time(state.location, order.restaurant.location)
    IN  IF /\ order.id \notin state.picked_up_orders
           /\ (~waiting_required \/ arrival_time < order.restaurant.prep_time)
           /\ arrival_time < best.arrival_time
        THEN Best(order.restaurant.location, order.id, arrival_time)
        ELSE best

\* CheckPickup without the comparison against the running best: the last
\* order scanned wins
CheckPickup_LastWins(state, order, waiting_required, best) ==
    LET arrival_time == state.time + travel_time(state.location, order.restaurant.location)
    IN  IF /\ order.id \notin state.picked_up_orders
           /\ (~waiting_required \/ arrival_time < order.restaurant.prep_time)
        THEN Best(order.restaurant.location, order.id, arrival_time)
        ELSE best

\* CheckPickup with the flag read as the docstring words it: the arrival
\* time is tested against prep_time unless waiting_required
CheckPickup_FlagAsDocumented(state, order, waiting_required, best) ==
    LET arrival_time == state.time + travel_time(state.location, order.restaurant.location)
    IN  IF /\ order.id \notin state.picked_up_orders
           /\ (waiting_required \/ arrival_time < order.restaurant.prep_time)
           /\ arrival_time < best.arrival_time
        THEN Best(order.restaurant.location, order.id, arrival_time)
        ELSE best

\* the restaurant check of one order against the running best
CheckPickup(state, order, waiting_required, best) ==
    LET arrival_time == state.time + travel_time(state.location, order.restaurant.location)
    IN  IF /\ order.id \notin state.picked_up_orders
           /\ (~waiting_required \/ arrival_time < order.restaurant.prep_time)
           /\ arrival_time < best.arrival_time
        THEN Best(order.restaurant.location, order.id, arrival_time)
        ELSE best

\* CheckDelivery with the arrival time taken as the travel time alone
CheckDelivery_NoClock(state, order, best) ==
    LET arrival_time == travel_time(state.location, order.customer)
    IN  IF /\ order.id \in state.picked_up_orders
           /\ order.id \notin state.delivered_orders
           /\ arrival_time < best.arrival_time
        THEN Best(order.customer, order.id, arrival_time)
        ELSE best

\* the customer check of one order against the running best
\* CheckDelivery with a customer at the running best's arrival time
\* replacing the running best
CheckDelivery_TieLast(state, order, best) ==
    LET arrival_time == state.time + travel_time(state.location, order.customer)
    IN  IF /\ order.id \in state.picked_up_orders
           /\ order.id \notin state.delivered_orders
           /\ arrival_time <= best.arrival_time
        THEN Best(order.customer, order.id, arrival_time)
        ELSE best

CheckDelivery(state, order, best) ==
    LET arrival_time == state.time + travel_time(state.location, order.customer)
    IN  IF /\ order.id \in state.picked_up_orders
           /\ order.id \notin state.delivered_orders
           /\ arrival_time < best.arrival_time
        THEN Best(order.customer, order.id, arrival_time)
        ELSE best

RECURSIVE ScanOrders(_, _, _, _, _)
ScanOrders(state, os, waiting_required, i, best) ==
    IF i > Len(os) THEN best
    ELSE ScanOrders(state, os, waiting_required, i + 1,
            CheckDelivery(state, os[i],
                CheckPickup(state, os[i], waiting_required, best)))

find_nearest_valid_location(state, os, waiting_required) ==
    ScanOrders(state, os, waiting_required, 1, Best(None, None, inf))

(* ---------------------------- state ------------------------------------ *)

VARIABLES
    driver_location,  \* self.driver_location
    orders,           \* the argument of optimize_route
    state,            \* the DeliveryState
    route,
    timeline,
    next_loc,         \* the locals of the last loop iteration; before the
    order_id,         \* first one (where Python has them unbound) they hold
    arrival_time,     \* what a search without candidates returns
    pc,               \* "loop": in the while loop; "done": returned
    call,             \* 1 in the first call of optimize_route, 2 in the second
    previous          \* what the call before this one returned

vars == <<driver_location, orders, state, route, timeline,
          next_loc, order_id, arrival_time, pc, call, previous>>

\* the tuple optimize_route returns
Result(r, total_time, tl) == [route |-> r, total_time |-> total_time, timeline |-> tl]

\* no call has returned yet
NoResult == Result(<<>>, -1, <<>>)

Init ==
    /\ driver_location \in { Location("Driver", lat, 0) : lat \in Lats }
    /\ \E n \in 0 .. MaxOrders :
         \E ids \in IdLists(n), ms \in [1 .. n -> Meals] :
            orders = [i \in 1 .. n |-> Order(ids[i], ms[i].restaurant, ms[i].customer)]
    /\ state = DeliveryState(driver_location, 0)
    /\ route = <<>>
    /\ timeline = <<>>
    /\ next_loc = None
    /\ order_id = None
    /\ arrival_time = inf
    /\ pc = "loop"
    /\ call = 1
    /\ previous = NoResult

(* ---------------------------- optimize_route --------------------------- *)

\* max taken for min
Max_AsMin(a, b) == IF a < b THEN a ELSE b

Max(a, b) == IF a > b THEN a ELSE b

\* next(o for o in orders if o.id == order_id)
matching_order(os, id) ==
    os[CHOOSE i \in 1 .. Len(os) :
          /\ os[i].id = id
          /\ \A j \in 1 .. (i - 1) : os[j].id # id]

\* the two searches at the top of an iteration
Search(st, os) ==
    LET first == find_nearest_valid_location(st, os, FALSE)
    IN  IF first.location = None
        THEN find_nearest_valid_location(st, os, TRUE)
        ELSE first

WaitingEvent(loc, id, start, end) ==
    [action |-> "waiting", location |-> loc.name, order_id |-> id,
     start_time |-> start, end_time |-> end]

StopEvent(action, loc, id, time) ==
    [action |-> action, location |-> loc.name, order_id |-> id, time |-> time]

\* HandlePickup with the pickup event stamped with the arrival time
HandlePickup_StampArrival(found, m) ==
    LET prep_end_time == Max(found.arrival_time, m.restaurant.prep_time)
        waits == prep_end_time > found.arrival_time
    IN  /\ timeline' =
              (IF waits
               THEN Append(timeline, WaitingEvent(found.location, found.order_id,
                                                  found.arrival_time, prep_end_time))
               ELSE timeline)
              \o << StopEvent("pickup", found.location, found.order_id,
                              found.arrival_time) >>
        /\ state' = [state EXCEPT
              !.time = IF waits THEN prep_end_time ELSE found.arrival_time,
              !.picked_up_orders = @ \cup {found.order_id},
              !.location = found.location]

\* the restaurant branch of an iteration
HandlePickup(found, m) ==
    LET prep_end_time == Max(found.arrival_time, m.restaurant.prep_time)
        waits == prep_end_time > found.arrival_time
    IN  /\ timeline' =
              (IF waits
               THEN Append(timeline, WaitingEvent(found.location, found.order_id,
                                                  found.arrival_time, prep_end_time))
               ELSE timeline)
              \o << StopEvent("pickup", found.location, found.order_id,
                              IF waits THEN prep_end_time ELSE found.arrival_time) >>
        /\ state' = [state EXCEPT
              !.time = IF waits THEN prep_end_time ELSE found.arrival_time,
              !.picked_up_orders = @ \cup {found.order_id},
              !.location = found.location]

\* HandleDelivery with the clock left at the time the iteration began
HandleDelivery_ClockKept(found) ==
    /\ timeline' = Append(timeline,
          StopEvent("delivery", found.location, found.order_id, found.arrival_time))
    /\ state' = [state EXCEPT
          !.delivered_orders = @ \cup {found.order_id},
          !.location = found.location]

\* HandleDelivery with the driver left where the iteration began
HandleDelivery_StaysPut(found) ==
    /\ timeline' = Append(timeline,
          StopEvent("delivery", found.location, found.order_id, found.arrival_time))
    /\ state' = [state EXCEPT
          !.time = found.arrival_time,
          !.delivered_orders = @ \cup {found.order_id}]

\* the customer branch of an iteration
HandleDelivery(found) ==
    /\ timeline' = Append(timeline,
          StopEvent("delivery", found.location, found.order_id, found.arrival_time))
    /\ state' = [state EXCEPT
          !.time = found.arrival_time,
          !.delivered_orders = @ \cup {found.order_id},
          !.location = found.location]

\* the loop left one delivery early
LoopCondition_OneShort(st, os) == Cardinality(st.delivered_orders) + 1 < Len(os)

\* the loop entered once more
LoopCondition_Inclusive(st, os) == Cardinality(st.delivered_orders) <= Len(os)

\* while len(state.delivered_orders) < len(orders)
LoopCondition(st, os) == Cardinality(st.delivered_orders) < Len(os)

\* one iteration of the while loop
LoopIteration ==
    /\ pc = "loop"
    /\ LoopCondition(state, orders)
    /\ Len(route) < 2 * Len(orders) + ExtraStops
    /\ \E found \in {Search(state, orders)} :
           /\ next_loc' = found.location
           /\ order_id' = found.order_id
           /\ arrival_time' = found.arrival_time
           /\ IF found.location # None
              THEN /\ \E m \in {matching_order(orders, found.order_id)} :
                          IF found.location = m.restaurant.location
                          THEN HandlePickup(found, m)
                          ELSE HandleDelivery(found)
                   /\ route' = Append(route, found.location)
              ELSE UNCHANGED <<state, route, timeline>>
    /\ UNCHANGED <<driver_location, orders, pc, call, previous>>

\* the loop condition fails: return route, state.time, timeline
Return ==
    /\ pc = "loop"
    /\ ~LoopCondition(state, orders)
    /\ pc' = "done"
    /\ UNCHANGED <<driver_location, orders, state, route, timeline,
                   next_loc, order_id, arrival_time, call, previous>>

Next == LoopIteration \/ Return

Spec == Init /\ [][Next]_vars

(* ---------------------------- a second call ---------------------------- *)

\* CallAgain with the DeliveryState of the first call kept for the second
CallAgain_StateKept ==
    /\ pc = "done"
    /\ call = 1
    /\ previous' = Result(route, state.time, timeline)
    /\ call' = 2
    /\ route' = <<>>
    /\ timeline' = <<>>
    /\ next_loc' = None
    /\ order_id' = None
    /\ arrival_time' = inf
    /\ pc' = "loop"
    /\ UNCHANGED <<driver_location, orders, state>>

\* The caller keeps what the first call returned and calls optimize_route
\* again, on the same RouteOptimizer and with the same order list: state,
\* route and timeline are built anew.
CallAgain ==
    /\ pc = "done"
    /\ call = 1
    /\ previous' = Result(route, state.time, timeline)
    /\ call' = 2
    /\ state' = DeliveryState(driver_location, 0)
    /\ route' = <<>>
    /\ timeline' = <<>>
    /\ next_loc' = None
    /\ order_id' = None
    /\ arrival_time' = inf
    /\ pc' = "loop"
    /\ UNCHANGED <<driver_location, orders>>

NextTwoCalls == LoopIteration \/ Return \/ CallAgain

SpecTwoCalls == Init /\ [][NextTwoCalls]_vars

(* ---------------------------- the timeline ----------------------------- *)

\* the identifiers of the order list
Ids == { orders[i].id : i \in DOMAIN orders }

HasDuplicateIds == \E i, j \in DOMAIN orders : i # j /\ orders[i].id = orders[j].id

\* optimize_route on the order lists of distinct identifiers
InitUniqueIds == Init /\ ~HasDuplicateIds

SpecUniqueIds == InitUniqueIds /\ [][Next]_vars

\* the places of an order's events of one kind in the timeline
EventsOf(action, id) ==
    { i \in DOMAIN timeline : timeline[i].action = action /\ timeline[i].order_id = id }

\* when an event begins and when it ends
StartOf(e) == IF e.action = "waiting" THEN e.start_time ELSE e.time
EndOf(e) == IF e.action = "waiting" THEN e.end_time ELSE e.time

Chronological(tl) == \A i \in 2 .. Len(tl) : StartOf(tl[i]) >= EndOf(tl[i - 1])

\* the last iteration selected a stop and took the restaurant branch
LastWasPickup ==
    /\ next_loc # None
    /\ timeline # <<>>
    /\ timeline[Len(timeline)].action = "pickup"

\* the prep_time the restaurant branch reads for an order identifier
PrepOf(id) == matching_order(orders, id).restaurant.prep_time

(* ---------------------------- claims ----------------------------------- *)

\* C1: for a non-empty order list, when optimize_route has returned, the
\* route has exactly 2 * N entries and the timeline holds exactly one pickup
\* event and exactly one delivery event for each order identifier.
C1_RouteAndEventsPerOrder ==
    (pc = "done" /\ Len(orders) > 0) =>
        /\ Len(route) = 2 * Len(orders)
        /\ \A id \in Ids :
              /\ Cardinality(EventsOf("pickup", id)) = 1
              /\ Cardinality(EventsOf("delivery", id)) = 1

\* two orders, returned, the driver having waited at a restaurant
C1_Witness ==
    /\ pc = "done"
    /\ Len(orders) = 2
    /\ \E i \in DOMAIN timeline : timeline[i].action = "waiting"

\* C2 (as claimed): the loop selects at most 2 * N stops for a list of N
\* orders.
C2_AtMostTwoStopsPerOrder == Len(route) <= 2 * Len(orders)

\* C3 (as claimed): in the returned timeline every order's pickup event has
\* a time strictly less than its delivery event's.
C3_PickupStrictlyBeforeDelivery ==
    pc = "done" =>
        \A id \in Ids : \A i \in EventsOf("pickup", id), j \in EventsOf("delivery", id) :
            timeline[i].time < timeline[j].time

\* C3 (amended): in the returned timeline every order's pickup event comes
\* before its delivery event and has a time less than or equal to it.
C3_PickupNotAfterDelivery ==
    pc = "done" =>
        \A id \in Ids : \A i \in EventsOf("pickup", id), j \in EventsOf("delivery", id) :
            /\ i < j
            /\ timeline[i].time <= timeline[j].time

\* returned, with one order delivered after a stop of another order that
\* followed its pickup, and one delivered at the very time of its pickup
C3_Witness ==
    /\ pc = "done"
    /\ \E id \in Ids : \E i \in EventsOf("pickup", id), j \in EventsOf("delivery", id) :
          j > i + 1 /\ timeline[i].time < timeline[j].time
    /\ \E id \in Ids : \E i \in EventsOf("pickup", id), j \in EventsOf("delivery", id) :
          timeline[i].time = timeline[j].time

\* C4 (as claimed, read on the order lists with distinct identifiers): a
\* pickup event of an order is never emitted when the order is already
\* picked up; a delivery event of an order is emitted only after a pickup
\* event of that order and only if it is not yet delivered.
C4_UnvisitedPickedUpDelivered ==
    ~HasDuplicateIds =>
    \A i \in DOMAIN timeline :
        LET e == timeline[i]
        IN  /\ e.action = "pickup" =>
                 \A j \in 1 .. (i - 1) :
                     ~(timeline[j].action = "pickup" /\ timeline[j].order_id = e.order_id)
            /\ e.action = "delivery" =>
                 /\ \E j \in 1 .. (i - 1) :
                       timeline[j].action = "pickup" /\ timeline[j].order_id = e.order_id
                 /\ \A j \in 1 .. (i - 1) :
                       ~(timeline[j].action = "delivery" /\ timeline[j].order_id = e.order_id)

\* C5 (as claimed): the delivered identifiers are a subset of the picked-up
\* identifiers in every reachable state.
C5_DeliveredSubsetPickedUp == state.delivered_orders \subseteq state.picked_up_orders

\* C6: state.time never decreases, and the timeline is chronological in
\* emission order: every event begins (time, or start_time of a waiting
\* event) no earlier than the event before it ends (time, or end_time).
C6_TimeMonotonic ==
    [][state'.time >= state.time /\ Chronological(timeline')]_vars

\* a waiting event emitted after at least one earlier event, the clock having
\* moved before it
C6_Witness ==
    \E i \in 2 .. Len(timeline) :
        /\ timeline[i].action = "waiting"
        /\ timeline[i].start_time > 0

\* C7: a waiting event is emitted for a pickup exactly when the arrival time
\* at the restaurant is strictly less than the restaurant's prep_time; it
\* carries start_time = arrival time and end_time = prep_time, and the event
\* after it is the pickup event of the same order.
C7_WaitingExactlyWhenEarly ==
    /\ \A i \in DOMAIN timeline :
          timeline[i].action = "waiting" =>
              /\ timeline[i].end_time = PrepOf(timeline[i].order_id)
              /\ timeline[i].end_time > timeline[i].start_time
              /\ i < Len(timeline)
              /\ timeline[i + 1].action = "pickup"
              /\ timeline[i + 1].order_id = timeline[i].order_id
    /\ LastWasPickup =>
          LET n == Len(timeline)
              waited == n > 1 /\ timeline[n - 1].action = "waiting"
          IN  /\ (arrival_time < PrepOf(order_id)) <=> waited
              /\ waited => timeline[n - 1].start_time = arrival_time

\* a pickup that followed a wait, after an earlier pickup that needed none
C7_Witness ==
    /\ LastWasPickup
    /\ Len(timeline) = 3
    /\ timeline[1].action = "pickup"
    /\ timeline[2].action = "waiting"
    /\ timeline[2].start_time = arrival_time

\* C8: every pickup event's time is max(arrival time, prep_time), prep_time
\* being a minute on the clock that starts at 0; no order is picked up
\* before its restaurant's prep_time.
C8_PickupAtMaxOfArrivalAndPrep ==
    /\ LastWasPickup =>
          timeline[Len(timeline)].time =
              (IF arrival_time > PrepOf(order_id) THEN arrival_time ELSE PrepOf(order_id))
    /\ \A i \in DOMAIN timeline :
          timeline[i].action = "pickup" => timeline[i].time >= PrepOf(timeline[i].order_id)

\* one pickup held back to prep_time and one made on arrival, after it
C8_Witness ==
    /\ LastWasPickup
    /\ arrival_time > PrepOf(order_id)
    /\ PrepOf(order_id) > 0
    /\ \E i \in DOMAIN timeline :
          /\ timeline[i].action = "pickup"
          /\ timeline[i].time = PrepOf(timeline[i].order_id)
          /\ i > 1 /\ timeline[i - 1].action = "waiting"

\* C9: with an empty order list the loop body never runs and optimize_route
\* returns route = [], total time = 0 and timeline = [].
C9_EmptyOrderList ==
    Len(orders) = 0 =>
        /\ route = <<>>
        /\ timeline = <<>>
        /\ state.time = 0
        /\ pc = "done" \/ ENABLED Return
        /\ ~ENABLED LoopIteration

\* returned from a call with no orders
C9_Witness == Len(orders) = 0 /\ pc = "done"

\* C10 (as claimed): an order list with two orders of the same identifier is
\* rejected: optimize_route does not proceed to select a stop for it.
C10_DuplicateIdsRejected == HasDuplicateIds => route = <<>>

\* no order of the list is left to pick up or to deliver, for either search
NoCandidate(st, os) == Search(st, os).location = None

\* C11 (as claimed): an iteration that runs while an order is undelivered and
\* in which both searches return no candidate ends the call with a failure:
\* the loop is not entered again.
C11_NoCandidateIsFatal ==
    [][(pc = "loop" /\ LoopCondition(state, orders) /\ NoCandidate(state, orders))
          => pc' # "loop"]_vars

\* the pickup and delivery events of a timeline, in emission order
StopEvents(tl) == SelectSeq(tl, LAMBDA e : e.action # "waiting")

\* C12 (as claimed): in the returned timeline every pickup or delivery event
\* has a time strictly greater than the pickup or delivery event before it,
\* and the first one a time strictly greater than 0.
C12_StopTimesStrictlyIncrease ==
    pc = "done" =>
        LET stops == StopEvents(timeline)
        IN  \A k \in DOMAIN stops :
                stops[k].time > (IF k = 1 THEN 0 ELSE stops[k - 1].time)

\* C12 (amended): in the returned timeline every pickup or delivery event has
\* a time greater than or equal to that of the pickup or delivery event
\* before it, and the first one a time greater than or equal to 0.
C12_StopTimesNeverDecrease ==
    pc = "done" =>
        LET stops == StopEvents(timeline)
        IN  \A k \in DOMAIN stops :
                stops[k].time >= (IF k = 1 THEN 0 ELSE stops[k - 1].time)

\* returned from two orders, with two stops at one time and a later stop at
\* a greater time
C12_Witness ==
    /\ pc = "done"
    /\ LET stops == StopEvents(timeline)
       IN  /\ Len(stops) = 4
           /\ \E k \in 2 .. 4 : stops[k].time = stops[k - 1].time
           /\ \E k \in 2 .. 4 : stops[k].time > stops[k - 1].time

StartTravel(i) == travel_time(driver_location, orders[i].restaurant.location)

\* C14: in a list of two orders (of distinct identifiers) whose restaurants
\* have the same prep_time, the order whose restaurant has the strictly
\* smaller travel time from the driver's start location is picked up no
\* later than the other: whenever the other has a pickup event, an earlier
\* event of the timeline is the pickup of the nearer order, at a time less
\* than or equal to it.
C14_NearerRestaurantPickedUpFirst ==
    (Len(orders) = 2 /\ ~HasDuplicateIds) =>
        \A a, b \in DOMAIN orders :
            (/\ orders[a].restaurant.prep_time = orders[b].restaurant.prep_time
             /\ StartTravel(a) < StartTravel(b))
            => \A j \in EventsOf("pickup", orders[b].id) :
                   \E i \in EventsOf("pickup", orders[a].id) :
                       i < j /\ timeline[i].time <= timeline[j].time

\* both orders picked up, the nearer one being the second of the list, both
\* restaurants with the prep_time of 20 minutes
C14_Witness ==
    /\ Len(orders) = 2
    /\ ~HasDuplicateIds
    /\ orders[1].restaurant.prep_time = PREP_TIME
    /\ orders[2].restaurant.prep_time = PREP_TIME
    /\ StartTravel(2) < StartTravel(1)
    /\ EventsOf("pickup", orders[1].id) # {}
    /\ EventsOf("pickup", orders[2].id) # {}

\* every Location of the input: the driver's start, the restaurants, the customers
InputLocations ==
    {driver_location}
        \cup {orders[i].restaurant.location : i \in DOMAIN orders}
        \cup {orders[i].customer : i \in DOMAIN orders}

PickupCandidate(st, o, waiting_required) ==
    CheckPickup(st, o, waiting_required, Best(None, None, inf)).location # None

\* C16 (as claimed): for an order not yet picked up, the restaurant is a
\* candidate of the search without waiting exactly when the arrival time
\* (state.time plus the travel time to the restaurant) is strictly less than
\* the restaurant's prep_time, and is always a candidate of the search with
\* waiting_required.
C16_PickupCandidateRule ==
    \A i \in DOMAIN orders :
        orders[i].id \notin state.picked_up_orders =>
            LET o == orders[i]
                arrival == state.time + travel_time(state.location, o.restaurant.location)
            IN  /\ PickupCandidate(state, o, FALSE) <=> (arrival < o.restaurant.prep_time)
                /\ PickupCandidate(state, o, TRUE)

\* The candidates of one search in the order the scan meets them: position
\* 2i - 1 is the restaurant of the i-th order and position 2i its customer;
\* a position that is not eligible holds (None, None, inf).
CandidateAt(st, os, waiting_required, k) ==
    LET order == os[(k + 1) \div 2]
        empty == Best(None, None, inf)
    IN  IF k % 2 = 1
        THEN CheckPickup(st, order, waiting_required, empty)
        ELSE CheckDelivery(st, order, empty)

\* the candidates of one search, by position
Candidates(st, os, waiting_required) ==
    [k \in 1 .. 2 * Len(os) |-> CandidateAt(st, os, waiting_required, k)]

\* the positions that hold an eligible candidate
Eligible(cands) == {k \in DOMAIN cands : cands[k].location # None}

\* C17: find_nearest_valid_location returns an eligible candidate of the
\* minimum arrival time (state.time plus the travel time from
\* state.location); of several candidates at the minimum it returns the one
\* the scan of the orders meets first; with no eligible candidate it returns
\* (None, None, inf). Eligibility is as the search tests it, for either
\* value of waiting_required.
C17_NearestEligibleFirstMet ==
    \A w \in BOOLEAN :
        \E found \in {find_nearest_valid_location(state, orders, w)} :
        \E at \in {Candidates(state, orders, w)} :
        \E K \in {Eligible(at)} :
            IF K = {}
            THEN found = Best(None, None, inf)
            ELSE \E k \in K :
                    /\ found = at[k]
                    /\ \A j \in K : at[j].arrival_time >= found.arrival_time
                    /\ \A j \in K : j < k => at[j].arrival_time > found.arrival_time

\* a search in the running loop with a restaurant and, later in the scan, a
\* customer both at the minimum arrival time, the restaurant not being
\* eligible for the search with waiting_required
C17_Witness ==
    /\ pc = "loop"
    /\ LoopCondition(state, orders)
    /\ LET at == Candidates(state, orders, FALSE)
           K == Eligible(at)
       IN  \E j, k \in K :
               /\ j < k
               /\ j % 2 = 1
               /\ k % 2 = 0
               /\ at[j].arrival_time = at[k].arrival_time
               /\ at[j] # at[k]
               /\ \A m \in K : at[m].arrival_time >= at[j].arrival_time
               /\ j \notin Eligible(Candidates(state, orders, TRUE))

\* a stop that needs no waiting is open: the delivery of a picked-up order,
\* or the pickup of an order whose restaurant is reached at or after its
\* prep_time
NoWaitAvailable(st, os) ==
    \E i \in DOMAIN os :
        \/ os[i].id \in st.picked_up_orders /\ os[i].id \notin st.delivered_orders
        \/ /\ os[i].id \notin st.picked_up_orders
           /\ st.time + travel_time(st.location, os[i].restaurant.location)
                  >= os[i].restaurant.prep_time

\* C18 (as claimed): a stop selection that leads to a waiting event is made
\* only when no stop that needs no waiting was available at that selection.
C18_WaitsOnlyWithoutAlternative ==
    [][(\E k \in (Len(timeline) + 1) .. Len(timeline') : timeline'[k].action = "waiting")
          => ~NoWaitAvailable(state, orders)]_vars

\* the search of an iteration returns the delivery candidate of an order:
\* the order is already picked up and the returned location is its customer
ReturnsDeliveryCandidate(st, os) ==
    LET found == Search(st, os)
    IN  /\ found.location # None
        /\ found.order_id \in st.picked_up_orders
        /\ found.location = matching_order(os, found.order_id).customer

\* C19 (as claimed): whenever the search of an iteration returns the
\* delivery candidate of an order, the iteration marks that order delivered
\* and emits a delivery event, never a pickup event; this includes an order
\* whose customer Location equals its restaurant Location. Stated for lists
\* of distinct identifiers, where the order of an identifier is unique.
C19_DeliveryCandidateIsDelivered ==
    [][(/\ pc = "loop"
        /\ ~HasDuplicateIds
        /\ LoopCondition(state, orders)
        /\ ReturnsDeliveryCandidate(state, orders)
        /\ timeline' # timeline)
          => /\ Search(state, orders).order_id \in state'.delivered_orders
             /\ timeline'[Len(timeline')].action = "delivery"
             /\ timeline'[Len(timeline')].order_id = Search(state, orders).order_id]_vars

C22_TotalTimeIsLastDelivery ==
    (pc = "done" /\ Len(orders) > 0) =>
        /\ timeline # <<>>
        /\ \E last \in {timeline[Len(timeline)]} :
               /\ last.action = "delivery"
               /\ Result(route, state.time, timeline).total_time = last.time
               /\ \A i \in DOMAIN timeline :
                      /\ StartOf(timeline[i]) <= last.time
                      /\ EndOf(timeline[i]) <= last.time

\* a return for two orders after a wait, the last delivery being strictly
\* later than the event before it
C22_Witness ==
    /\ pc = "done"
    /\ Len(orders) = 2
    /\ \E i \in DOMAIN timeline : timeline[i].action = "waiting"
    /\ Len(timeline) > 1
    /\ timeline[Len(timeline)].time > EndOf(timeline[Len(timeline) - 1])

====
